---------------------------- MODULE Spec2Model ----------------------------
(***************************************************************************)
(* A model of the qiskit-tutorials notebooks.                              *)
(*                                                                         *)
(* A kernel is started for one notebook (nb) and its code cells are run in *)
(* document order; the helper functions of the notebooks are operators,    *)
(* computed as the Python code computes them.  Python values are modelled  *)
(* as follows:                                                             *)
(*   str of bits     a sequence of the one-character strings "0" and "1"   *)
(*   float           an exact dyadic rational <<num, den>>, den a power of *)
(*                   two (every float the modelled code handles is one)    *)
(*   dict            a record [keys |-> insertion-ordered sequence of the  *)
(*                   keys, val |-> function from the keys to the values]   *)
(***************************************************************************)
EXTENDS Integers, Sequences, FiniteSets, TLC

(***************************************************************************)
(* Bounds of the model.                                                    *)
(***************************************************************************)
\* largest register size / number of qubits passed to the utility functions
MaxQubits == 3
\* target phases are the multiples of 2^-PhaseBits in [0, 1)
PhaseBits == 5
\* num_qubits of the transverse-field Ising cell ranges over 2..MaxNumQubits
MaxNumQubits == 6
\* qpe_circuit(r1, r2) is called with r1 in 1..MaxQubits and r2 in 1..MaxR2
MaxR2 == 2
\* the random Hermitian matrices np.random.rand can draw, as 1..NumDraws
NumDraws == 2
\* build_qft_circuit(n_qubits) is called with n_qubits in 1..MaxQftQubits
MaxQftQubits == 5
\* a parameter sweep has 1..MaxSweepLen points, each one of 0..MaxParam
MaxSweepLen == 2
MaxParam == 1
\* the number of shots of the samplers (the notebook asks for 1000)
MaxShots == 2
\* the job stored on the service under job_key swept 1..MaxStoredPoints points
MaxStoredPoints == 5
\* manual execution: the cells are executed at most MaxExecutions times in all
MaxExecutions == 4
\* check_results: the components of initial_state are the integers of
\* -MaxAmp..MaxAmp, over the norm of the vector
MaxAmp == 2

(***************************************************************************)
(* Arithmetic helpers.                                                     *)
(***************************************************************************)
RECURSIVE Pow2(_)
Pow2(e) == IF e <= 0 THEN 1 ELSE 2 * Pow2(e - 1)

Abs(x) == IF x < 0 THEN -x ELSE x

Max(a, b) == IF a >= b THEN a ELSE b

\* dyadic rationals <<num, den>>, kept in lowest terms
RECURSIVE NormQ(_)
NormQ(q) ==
    IF q[2] > 1 /\ q[1] % 2 = 0 THEN NormQ(<<q[1] \div 2, q[2] \div 2>>) ELSE q

\* Python's 2 ** e for an integer e of either sign
PowQ(e) == IF e >= 0 THEN <<Pow2(e), 1>> ELSE <<1, Pow2(-e)>>

AddQ(a, b) ==
    LET d == Max(a[2], b[2])
    IN  NormQ(<<a[1] * (d \div a[2]) + b[1] * (d \div b[2]), d>>)

SubQ(a, b) == AddQ(a, <<-b[1], b[2]>>)

AbsQ(a) == <<Abs(a[1]), a[2]>>

LessQ(a, b) == a[1] * b[2] < b[1] * a[2]

IntQ(i) == <<i, 1>>

\* np.sum of a list of floats
RECURSIVE SumQ(_)
SumQ(s) == IF s = <<>> THEN IntQ(0) ELSE AddQ(Head(s), SumQ(Tail(s)))

\* np.round of num/den: to the nearest integer, ties to the even one
RoundHalfEven(q) ==
    LET lo == q[1] \div q[2]
        r2 == 2 * (q[1] % q[2])
    IN  IF r2 < q[2] THEN lo
        ELSE IF r2 > q[2] THEN lo + 1
        ELSE IF lo % 2 = 0 THEN lo ELSE lo + 1

\* s * "c": the character c repeated s times
RECURSIVE Rep(_, _)
Rep(s, c) == IF s <= 0 THEN <<>> ELSE <<c>> \o Rep(s - 1, c)


(***************************************************************************)
(* Python dicts: the sequence of the items [k, v] in insertion order.      *)
(***************************************************************************)
Item(k, v) == [k |-> k, v |-> v]

keys(d) == [i \in 1..Len(d) |-> d[i].k]

has_key(d, k) == \E i \in 1..Len(d) : d[i].k = k

\* d[k], for a key of d
get(d, k) == d[CHOOSE i \in 1..Len(d) : d[i].k = k].v

\* d[k] = v: a new key goes last, a known key keeps its place
set(d, k, v) ==
    IF has_key(d, k)
    THEN [i \in 1..Len(d) |-> IF d[i].k = k THEN Item(k, v) ELSE d[i]]
    ELSE Append(d, Item(k, v))

(***************************************************************************)
(* Python values whose type the code inspects (isinstance).                *)
(***************************************************************************)
PyStr(s) == [str |-> s]
PyInt(i) == [int |-> i]
isinstance_str(v) == "str" \in DOMAIN v

\* int(c) of a one-character string "0" or "1"
int(c) == IF c = "1" THEN 1 ELSE 0

\* the binary digits of ind >= 0, most significant first ("0" for 0)
RECURSIVE bin(_)
bin(ind) ==
    IF ind < 2 THEN <<IF ind = 1 THEN "1" ELSE "0">>
    ELSE bin(ind \div 2) \o <<IF ind % 2 = 1 THEN "1" ELSE "0">>

(***************************************************************************)
(* The utility functions of the hardware-QPE notebook.                     *)
(***************************************************************************)
\* format(ind, "0{n_qubits}b"): zero-padded to n_qubits characters, and
\* longer than that when ind needs more digits
to_bitstring(n_qubits, ind) ==
    LET digits == bin(ind)
    IN  Rep(n_qubits - Len(digits), "0") \o digits

\* np.sum([2 ** (n_qubits - 1 - int(b)) for b in bitstring]) for a str, the
\* argument itself otherwise
from_bitstring(n_qubits, bitstring) ==
    IF isinstance_str(bitstring)
    THEN SumQ([k \in 1..Len(bitstring.str) |->
                  PowQ(n_qubits - 1 - int(bitstring.str[k]))])
    ELSE bitstring

\* the keys of counts that carry the largest count
max_values_counts(counts) ==
    {counts[i].k : i \in {i \in 1..Len(counts) :
                             \A j \in 1..Len(counts) : counts[j].v <= counts[i].v}}

plot_histogram(counts) == [figure |-> "histogram", data |-> counts]

\* phase_from_counts reading the bitstring from its last character
phase_from_counts_reversed(counts) ==
    IF Cardinality(max_values_counts(counts)) # 1
    THEN [raised |-> "QiskitError"]
    ELSE LET bitstring == CHOOSE b \in max_values_counts(counts) : TRUE
         IN  [phase |-> SumQ([i \in 1..Len(bitstring) |->
                                 NormQ(<<int(bitstring[Len(bitstring) + 1 - i]),
                                         Pow2(i)>>)]),
              bitstring |-> bitstring,
              fig |-> plot_histogram(counts)]

\* (phase, bitstring, fig) of counts.most_frequent(), which raises for an
\* empty dict and for a tie; the phase is
\* np.sum([int(v) * 2 ** -(i + 1) for i, v in enumerate(bitstring)])
phase_from_counts(counts) ==
    IF Cardinality(max_values_counts(counts)) # 1
    THEN [raised |-> "QiskitError"]
    ELSE LET bitstring == CHOOSE b \in max_values_counts(counts) : TRUE
         IN  [phase |-> SumQ([i \in 1..Len(bitstring) |->
                                 NormQ(<<int(bitstring[i]), Pow2(i)>>)]),
              bitstring |-> bitstring,
              fig |-> plot_histogram(counts)]

\* to_bitstring(r1, int(np.round(target_phase * (2**r1))))
get_correct_bitstring(target_phase, r1) ==
    to_bitstring(r1, RoundHalfEven(NormQ(<<target_phase[1] * Pow2(r1),
                                          target_phase[2]>>)))

(***************************************************************************)
(* The transverse-field Ising Hamiltonian of the advanced-basics notebook. *)
(* A SparsePauliOp is the sequence of its terms [label, coeff]; + and sum  *)
(* concatenate the terms of their operands, in order.                      *)
(***************************************************************************)
J == 2
g == 1

SparsePauliOp(label, coeff) == [label |-> label, coeff |-> coeff]

\* sum([-J*SparsePauliOp(s*"I"+"ZZ"+(num_qubits-2-s)*"I")
\*      for s in range(num_qubits-1)])
hamiltonian_J(num_qubits) ==
    [k \in 1..(num_qubits - 1) |->
        LET s == k - 1
        IN  SparsePauliOp(Rep(s, "I") \o <<"Z", "Z">>
                              \o Rep(num_qubits - 2 - s, "I"), -J)]

\* sum([g*SparsePauliOp(s*"I"+"X"+(num_qubits-1-s)*"I")
\*      for s in range(num_qubits-1)])
hamiltonian_g(num_qubits) ==
    [k \in 1..(num_qubits - 1) |->
        LET s == k - 1
        IN  SparsePauliOp(Rep(s, "I") \o <<"X">>
                              \o Rep(num_qubits - 1 - s, "I"), g)]

(***************************************************************************)
(* Circuits.  A QuantumCircuit is the sequence of its instructions         *)
(* [gate, qargs, of]: the gate's name, the circuit qubits it acts on (the  *)
(* qubits of the first register come first, numbered from 0) and what the  *)
(* gate was built from.                                                    *)
(***************************************************************************)
Instruction(gate, qargs, of) == [gate |-> gate, qargs |-> qargs, of |-> of]

\* the circuit qubits of the two registers of QuantumCircuit(first, second)
first_register(r1) == [k \in 1..r1 |-> k - 1]
second_register(r1, r2) == [k \in 1..r2 |-> r1 + k - 1]

\* circ.h(qubits): one Hadamard per qubit, in order
h(circ, qubits) ==
    circ \o [k \in 1..Len(qubits) |->
                Instruction("h", <<qubits[k]>>, [none |-> TRUE])]

swap(circ, a, b) == Append(circ, Instruction("swap", <<a, b>>, [none |-> TRUE]))

(***************************************************************************)
(* Phase estimation notebook: qpe_circuit and what it calls.               *)
(***************************************************************************)
\* the generator with the division by the trace assigned back to rut
random_unitary_iter_over_trace(rham, m) ==
    [expm_i |-> rham, times |-> Pow2(m), over_trace |-> TRUE]

\* the matrix yielded at iteration m of random_unitary_iter, for the random
\* Hermitian matrix rham drawn before the loop: expm((2**m) * 1j * rham).
\* The statement rut/np.trace(rut) computes a value and drops it.
random_unitary_iter(rham, m) == [expm_i |-> rham, times |-> Pow2(m)]

\* a variant that lists the control after the targets: [*targs, ctrl]
controlled_U_gate_targets_first(circ, ctrl, targs, rut) ==
    Append(circ, Instruction("c-unitary", targs \o <<ctrl>>,
                             [unitary |-> rut, num_ctrl_qubits |-> 1]))

\* UnitaryGate(rut).control(1) appended on [ctrl, *targs]
controlled_U_gate(circ, ctrl, targs, rut) ==
    Append(circ, Instruction("c-unitary", <<ctrl>> \o targs,
                             [unitary |-> rut, num_ctrl_qubits |-> 1]))

\* np.real(-1j * np.log(eigval)/(2*np.pi)) for eigenvalues of a unitary:
\* the values of (-1/2, 1/2] with denominator 4
Turns == {<<-1, 4>>, <<0, 1>>, <<1, 4>>, <<1, 2>>}

\* np.mod(x, n) for a positive integer n: the result has the sign of n
mod(x, n) == NormQ(<<x[1] % (n * x[2]), x[2]>>)

\* the eigenpair of index idx (drawn by np.random.randint) of unitary: its
\* phase np.mod(real(-1j*log(eigval)/(2 pi)), 1) and its eigenvector
get_random_phase_and_psi(unitary, idx, turns) ==
    [phase |-> [eigenphase_of |-> unitary, idx |-> idx,
                phase |-> mod(turns, 1)],
     psi |-> [eigenvector_of |-> unitary, idx |-> idx]]

\* get_phase_from_qpe_circuit, from the counts that
\* statevector.sample_counts(1000, qargs=range(r1)) returned:
\* np.sum([(int(v))*2**-(i+1) for i,v in enumerate(bitstring)])
get_phase_from_qpe_circuit(counts) ==
    IF Cardinality(max_values_counts(counts)) # 1
    THEN [raised |-> "QiskitError"]
    ELSE LET bitstring == CHOOSE b \in max_values_counts(counts) : TRUE
         IN  [phase |-> SumQ([i \in 1..Len(bitstring) |->
                                 NormQ(<<int(bitstring[i]), Pow2(i)>>)])]

\* the bitstrings of t characters
Bitstrings(t) == [1..t -> {"0", "1"}]

flip(bitstring) ==
    [i \in 1..Len(bitstring) |-> IF bitstring[i] = "0" THEN "1" ELSE "0"]

\* counts a sampler may return when it measures b, and its complement less
\* often or (the last one) as often
CountsOf(b) ==
    {<<Item(b, 2)>>, <<Item(flip(b), 1), Item(b, 2)>>,
     <<Item(b, 1), Item(flip(b), 1)>>}

\* QFT(num_qubits=len(first_register), inverse=True, do_swaps=True)
\* appended on the first register
append_inverse_QFT(circ, qubits) ==
    Append(circ, Instruction("IQFT", qubits,
                             [num_qubits |-> Len(qubits), inverse |-> TRUE,
                              do_swaps |-> TRUE]))

(***************************************************************************)
(* Fourier transform notebook: build_qft_circuit is left to the student;   *)
(* it is modelled as the notebook's text describes it (the 0 to n-1        *)
(* version), on top of the helpers the notebook gives.                     *)
(***************************************************************************)
\* the gate of the matrix diag(1, 1, 1, exp(2 pi i / 2^k))
Rk(k) == [controlled_R |-> k]

\* a variant that appends on [targ, ctrl]
apply_controlled_rk_swapped(circ, k, ctrl, targ) ==
    Append(circ, Instruction("Rk", <<targ, ctrl>>, Rk(k)))

\* rk = Rk(k); circ.append(rk, [ctrl, targ])
apply_controlled_rk(circ, k, ctrl, targ) ==
    Append(circ, Instruction("Rk", <<ctrl, targ>>, Rk(k)))

\* the controlled-R_k gates on q_i, one per control q_j with j = from..n-1
RECURSIVE qft_phases(_, _, _, _)
qft_phases(circ, n_qubits, i, from) ==
    IF from >= n_qubits THEN circ
    ELSE qft_phases(apply_controlled_rk(circ, from - i, from, i),
                    n_qubits, i, from + 1)

\* a Hadamard and the phases on each of q_from .. q_{n-1}
RECURSIVE qft_rotations(_, _, _)
qft_rotations(circ, n_qubits, from) ==
    IF from >= n_qubits THEN circ
    ELSE qft_rotations(qft_phases(h(circ, <<from>>), n_qubits, from, from + 1),
                       n_qubits, from + 1)

\* swap q_i with q_{n-1-i} for i = from .. n/2 - 1
RECURSIVE qft_swaps(_, _, _)
qft_swaps(circ, n_qubits, from) ==
    IF from >= n_qubits \div 2 THEN circ
    ELSE qft_swaps(swap(circ, from, n_qubits - 1 - from), n_qubits, from + 1)

build_qft_circuit(n_qubits) ==
    qft_swaps(qft_rotations(<<>>, n_qubits, 0), n_qubits, 0)

(***************************************************************************)
(* check_results of the Fourier transform notebook.  initial_state is      *)
(* x / ||x|| for a vector x of integers; complex numbers are pairs         *)
(* <<re, im>> of integers, fractions are records [num, den], and a         *)
(* non-negative real is kept as the fraction that is its square, so that   *)
(* np.abs needs no square root.                                            *)
(***************************************************************************)
\* the state vectors have 2 or 4 components: their transforms are exact
FftQubits == {1, 2}

Frac(num, den) == [num |-> num, den |-> den]

EqFrac(a, b) == a.num * b.den = b.num * a.den

\* the real number whose square is sq
Real(sq) == [sq |-> sq]

\* exp(-2 pi i m / 4)
FourthRoot(m) ==
    CASE m % 4 = 0 -> <<1, 0>>
      [] m % 4 = 1 -> <<0, -1>>
      [] m % 4 = 2 -> <<-1, 0>>
      [] m % 4 = 3 -> <<0, 1>>

RECURSIVE SumSeq(_)
SumSeq(s) == IF s = <<>> THEN 0 ELSE Head(s) + SumSeq(Tail(s))

\* |z|^2
Abs2(z) == z[1] * z[1] + z[2] * z[2]

\* scipy.fft.fft(x, len(x)): y[k] = sum over j of x[j] exp(-2 pi i j k / N),
\* here for the integer vector x, indices counted from 1
fft(x) ==
    LET N == Len(x)
        term(j, k) == FourthRoot((j - 1) * (k - 1) * (4 \div N))
    IN  [k \in 1..N |->
            <<SumSeq([j \in 1..N |-> x[j] * term(j, k)[1]]),
              SumSeq([j \in 1..N |-> x[j] * term(j, k)[2]])>>]

\* np.max of fractions with one denominator
MaxNum(s) == CHOOSE m \in {s[k].num : k \in 1..Len(s)} :
                 \A k \in 1..Len(s) : s[k].num <= m

\* Statevector.probabilities() of the circuit, for a circuit whose output
\* amplitudes are the normalised discrete Fourier transform of
\* initial_state = x / ||x||: |y[k]|^2 / (N ||x||^2)
get_qft_coefficients(x) ==
    LET y == fft(x)
        norm2 == SumSeq([j \in 1..Len(x) |-> x[j] * x[j]])
    IN  [k \in 1..Len(x) |-> Frac(Abs2(y[k]), Len(x) * norm2)]

\* np.abs(amplitudes)/np.max(np.abs(amplitudes)), the curve "iQFT (norm)"
iqft_norm(x) ==
    LET amplitudes == get_qft_coefficients(x)
        top == MaxNum(amplitudes)
    IN  [k \in 1..Len(x) |->
            Real(Frac(amplitudes[k].num * amplitudes[k].num, top * top))]

\* np.abs(fft_amplitudes)/np.max(np.abs(fft_amplitudes)), "DFT (norm)";
\* |fft_amplitudes[k]|^2 is |y[k]|^2 / ||x||^2
dft_norm(x) ==
    LET y == fft(x)
        norm2 == SumSeq([j \in 1..Len(x) |-> x[j] * x[j]])
        abs2 == [k \in 1..Len(x) |-> Frac(Abs2(y[k]), norm2)]
        top == MaxNum(abs2)
    IN  [k \in 1..Len(x) |-> Real(Frac(abs2[k].num, top))]

\* the two curves check_results plots
check_results(x) == [iqft |-> iqft_norm(x), dft |-> dft_norm(x)]

(***************************************************************************)
(* time_evolution_unitaries of the hardware-QPE notebook, a generator.     *)
(***************************************************************************)
PauliEvolutionGate(ham, time) == [ham |-> ham, time |-> time]

\* the generator with the evolution time growing linearly in m
time_evolution_unitaries_linear(r1, ham, time, m) ==
    IF m < r1
    THEN [yield |-> PauliEvolutionGate(ham, -time * (2 * m))]
    ELSE [raised |-> "StopIteration"]

\* what next() gets from the generator when its loop variable comes to m:
\* for m in range(r1): yield PauliEvolutionGate(ham, time=-time * (2**m))
time_evolution_unitaries(r1, ham, time, m) ==
    IF m < r1
    THEN [yield |-> PauliEvolutionGate(ham, -time * (2 ^ m))]
    ELSE [raised |-> "StopIteration"]

\* the Hamiltonians and the times the generator is called with
Hams == {"ZZ", "XI"}
Times == {-1, 1, 3}

(***************************************************************************)
(* The circuit of the hardware-QPE notebook and its classical registers.   *)
(***************************************************************************)
\* the circuit qpe_circuit returns: QuantumCircuit(first_register,
\* second_register), no classical register, and the gates of the exercise
qpe_circuit(r1) ==
    [data |-> <<Instruction("qpe", first_register(r1), [none |-> TRUE])>>,
     cregs |-> <<>>]

ClassicalRegister(size, name) == [size |-> size, name |-> name]

\* circ.add_register(register): a second register of a name raises
add_register(circuit, register) ==
    IF \E i \in 1..Len(circuit.cregs) : circuit.cregs[i].name = register.name
    THEN [raised |-> "CircuitError"]
    ELSE [data |-> circuit.data, cregs |-> Append(circuit.cregs, register)]

\* circ.measure(qubits, register)
measure(circuit, qubits, register) ==
    [data |-> Append(circuit.data,
                     Instruction("measure", qubits, [creg |-> register.name])),
     cregs |-> circuit.cregs]

Measurements(circuit) ==
    Cardinality({p \in 1..Len(circuit.data) :
                    circuit.data[p].gate = "measure"})

\* Statevector.from_instruction(circ), which takes no measured circuit
phase_from_statevector_simulation(circuit) ==
    IF Measurements(circuit) > 0
    THEN [raised |-> "QiskitError"]
    ELSE [statevector_of |-> circuit]

(***************************************************************************)
(* Notebooks as programs.  A notebook is the sequence of its code cells, a *)
(* cell the sequence of its statements, a statement                        *)
(*   [reads, writes, does, arg]                                            *)
(* the global names it reads and assigns, and what else it does.  Calling  *)
(* a function of the notebook also reads the global names in its body.     *)
(***************************************************************************)
S(reads, writes) == [reads |-> reads, writes |-> writes, does |-> "names"]

Do(does, arg, reads, writes) ==
    [reads |-> reads, writes |-> writes, does |-> does, arg |-> arg]

\* the global names read by the bodies of the functions of the
\* connect-to-hardware notebook
connect_to_ibmq_bodies ==
    [f \in {"sample_circuit"} |-> {"np", "Statevector"}]
    @@ [f \in {"sv_estimate_observables"} |-> {"StatevectorEstimator"}]
    @@ [f \in {"plot_estimator_result"} |-> {"plt", "np"}]
    @@ [f \in {"backend_estimate_observables"} |->
            {"EstimatorV2", "generate_preset_pass_manager", "np"}]

\* the body of qpe_circuit left to the student: the hints name what to use
qpe_circuit_fill == {"controlled_U_gate", "bitstring_preparation_circuit", "QFT"}

\* and of the functions of the hardware-QPE notebook
ibm_qpe_bodies ==
    [f \in {"from_bitstring"} |-> {"np"}]
    @@ [f \in {"time_evolution_unitaries"} |-> {"PauliEvolutionGate"}]
    @@ [f \in {"get_targets"} |-> {"np", "to_bitstring"}]
    @@ [f \in {"phase_from_counts"} |-> {"Counts", "plot_histogram", "np"}]
    @@ [f \in {"phase_from_statevector_simulation"} |->
            {"Statevector", "phase_from_counts"}]
    @@ [f \in {"print_info"} |-> {"np"}]
    @@ [f \in {"get_correct_bitstring"} |-> {"to_bitstring", "np"}]
    @@ [f \in {"qpe_circuit"} |->
            {"get_targets", "np", "QuantumRegister", "QuantumCircuit",
             "time_evolution_unitaries"} \cup qpe_circuit_fill]
    @@ [f \in {"backend_sample"} |->
            {"SamplerV2", "generate_preset_pass_manager"}]
    @@ [f \in {"fig_to_zip"} |-> {"io"}]

Body == connect_to_ibmq_bodies @@ ibm_qpe_bodies

\* names, and the names read by calling those of them that are functions
RECURSIVE Free(_)
Free(names) ==
    LET more == names \cup UNION {Body[f] : f \in names \cap DOMAIN Body}
    IN  IF more = names THEN names ELSE Free(more)

(***************************************************************************)
(* The connect-to-hardware notebook.                                       *)
(***************************************************************************)
Cell_install == <<S({}, {})>>

Cell_circuit ==
    << S({}, {"QuantumCircuit", "Parameter"}),
       S({"QuantumCircuit"}, {"circuit"}),
       S({"Parameter"}, {"phi"}),
       S({"circuit", "phi"}, {}) >>

Cell_observables ==
    << S({}, {"SparsePauliOp"}),
       S({}, {"observables_labels"}),
       S({"SparsePauliOp", "observables_labels"}, {"observables"}) >>

\* the annotations of a def are evaluated when the def is executed
Cell_helpers ==
    << S({}, {"Statevector", "StatevectorEstimator", "np", "plt"}),
       S({"QuantumCircuit"}, {"sample_circuit"}),
       S({"QuantumCircuit", "np"}, {"sv_estimate_observables"}),
       S({}, {"print_outcomes"}),
       S({}, {"plot_estimator_result"}) >>

Cell_ideal ==
    << S({}, {"n_params"}),
       Do("input", "fine_param_sweep", {"np", "n_params"}, {"fine_param_sweep"}),
       Do("estimate",
          [backend |-> "statevector", sweep |-> "fine_param_sweep",
           result |-> "ideal_result"],
          {"sv_estimate_observables", "circuit", "observables",
           "fine_param_sweep"},
          {"ideal_result"}),
       Do("plot",
          [result |-> "ideal_result", sweep |-> "fine_param_sweep",
           overlay |-> FALSE],
          {"plot_estimator_result", "ideal_result", "fine_param_sweep",
           "observables"}, {}) >>

Cell_bitstring_counts ==
    << Do("empty dicts", "", {}, {"outcomes", "n_shots", "bitstring_counts"}),
       Do("sample loop", "",
          {"fine_param_sweep", "outcomes", "sample_circuit", "circuit",
           "n_shots"}, {"p"}),
       Do("rearrange loop", "",
          {"outcomes", "bitstring_counts", "np"},
          {"ind", "k", "bitstring", "counts"}),
       S({"plt"}, {"fig", "ax"}),
       Do("plot counts", "",
          {"bitstring_counts", "ax", "fine_param_sweep"}, {"bitstring"}),
       S({"ax"}, {}) >>

Cell_service ==
    << S({}, {"QiskitRuntimeService"}),
       S({}, {"token"}),
       S({"QiskitRuntimeService", "token"}, {"service"}),
       Do("least_busy", "", {"service"}, {"real_backend"}) >>

Cell_fake ==
    << S({}, {"FakeAthensV2", "EstimatorV2", "generate_preset_pass_manager",
              "AerSimulator"}),
       S({"QuantumCircuit", "np"}, {"backend_estimate_observables"}),
       S({}, {"n_shots"}),
       S({"FakeAthensV2"}, {"fake_backend"}),
       S({"AerSimulator", "fake_backend"}, {"backend_sim"}),
       Do("estimate",
          [backend |-> "AerSimulator", sweep |-> "fine_param_sweep",
           result |-> "fake_result"],
          {"backend_estimate_observables", "backend_sim", "circuit",
           "observables", "fine_param_sweep", "n_shots"},
          {"fake_result"}),
       Do("plot",
          [result |-> "fake_result", sweep |-> "fine_param_sweep",
           overlay |-> TRUE],
          {"plot_estimator_result", "fake_result", "fine_param_sweep",
           "observables", "ideal_result"}, {}) >>

Cell_hardware ==
    << S({}, {"n_shots"}),
       Do("input", "sparse_param_sweep", {"np"}, {"sparse_param_sweep"}),
       Do("input", "which", {}, {"which"}),
       Do("hardware branch", "", {"which"}, {}),
       S({}, {}),
       Do("plot",
          [result |-> "real_result", sweep |-> "sparse_param_sweep",
           overlay |-> TRUE],
          {"plot_estimator_result", "real_result", "sparse_param_sweep",
           "observables", "fine_param_sweep", "ideal_result"}, {}),
       S({}, {}),
       S({}, {"n_shots"}),
       Do("estimate",
          [backend |-> "AerSimulator", sweep |-> "sparse_param_sweep",
           result |-> "fake_mimic_result"],
          {"backend_estimate_observables", "AerSimulator", "real_backend",
           "circuit", "observables", "sparse_param_sweep", "n_shots"},
          {"fake_mimic_result"}),
       Do("plot",
          [result |-> "fake_mimic_result", sweep |-> "sparse_param_sweep",
           overlay |-> TRUE],
          {"plot_estimator_result", "fake_mimic_result", "sparse_param_sweep",
           "observables", "fine_param_sweep", "ideal_result"}, {}) >>

connect_to_ibmq ==
    << Cell_install, Cell_circuit, Cell_observables, Cell_helpers, Cell_ideal,
       Cell_bitstring_counts, Cell_service, Cell_fake, Cell_hardware >>

\* what the branch taken by "if which == ..." reads and assigns
estimate_branch(which) ==
    IF which = "run"
    THEN [reads |-> {"backend_estimate_observables", "real_backend",
                     "circuit", "observables", "sparse_param_sweep",
                     "n_shots"},
          writes |-> {"real_result"}]
    ELSE IF which = "load"
    THEN [reads |-> {"service"}, writes |-> {"job_key", "job", "real_result"}]
    ELSE [reads |-> {}, writes |-> {}]

(***************************************************************************)
(* Estimators, samplers and plots (connect-to-hardware notebook).          *)
(***************************************************************************)
observables_labels == <<"XXX", "ZZZ">>

sparse_param_sweep == <<-2, -1, 0, 1, 2>>

\* the PubResult of a pub (circuit, observables, param_sweep): the
\* observables, of shape (n, 1), are broadcast against the sweep, so evs and
\* stds hold one row per observable and one entry per point of the sweep
PubResult(observables, param_sweep) ==
    [data |->
        [evs |-> [o \in 1..Len(observables) |->
                     [i \in 1..Len(param_sweep) |->
                         [ev |-> observables[o], phi |-> param_sweep[i]]]],
         stds |-> [o \in 1..Len(observables) |->
                     [i \in 1..Len(param_sweep) |->
                         [std |-> observables[o], phi |-> param_sweep[i]]]]]]

Request(op, on) == [op |-> op, on |-> on]

\* StatevectorEstimator().run([pub]).result()[0]: computed in the kernel
sv_estimate_observables(observables, param_sweep) ==
    [result |-> PubResult(observables, param_sweep), requests |-> <<>>]

\* a variant that runs the pub a second time when the first result is in
backend_estimate_observables_retry(backend, observables, param_sweep) ==
    [result |-> PubResult(observables, param_sweep),
     requests |-> <<Request("run", backend), Request("result", "job"),
                    Request("run", backend), Request("result", "job")>>]

\* EstimatorV2(backend).run([pub], precision).result()[0]: one job
\* submitted to the backend, one blocking read of its result
backend_estimate_observables(backend, observables, param_sweep) ==
    [result |-> PubResult(observables, param_sweep),
     requests |-> <<Request("run", backend), Request("result", "job")>>]

\* plot_estimator_result(result, param_sweep, observables, ...): what it
\* hands to ax.plot (the overlay) and to ax.errorbar (one call per observable)
plot_estimator_result(result, param_sweep, overlay_sweep, overlay_result) ==
    [x |-> param_sweep, evs |-> result.data.evs, stds |-> result.data.stds,
     overlay |-> IF "none" \in DOMAIN overlay_result
                 THEN overlay_result
                 ELSE [x |-> overlay_sweep, evs |-> overlay_result.data.evs]]

\* matplotlib raises ValueError unless x, y and yerr have the same length
errorbar_raises(plot) ==
    \E o \in 1..Len(plot.evs) :
        \/ Len(plot.evs[o]) # Len(plot.x)
        \/ Len(plot.stds[o]) # Len(plot.x)

\* the sweeps the job stored under job_key can have been submitted with; the
\* one of MaxStoredPoints = 5 points is sparse_param_sweep
StoredSweeps ==
    {[i \in 1..n |-> sparse_param_sweep[1] + i - 1] : n \in 1..MaxStoredPoints}

\* the outcomes a sampler can return: dicts from bitstrings to positive
\* counts that sum to the number of shots
Samples ==
    LET a == <<"0", "0", "0">>
        b == <<"1", "1", "1">>
    IN  {<<Item(a, MaxShots)>>, <<Item(b, MaxShots)>>}
        \cup {<<Item(a, n), Item(b, MaxShots - n)>> : n \in 1..(MaxShots - 1)}

Sweeps == UNION {[1..n -> 0..MaxParam] : n \in 1..MaxSweepLen}

\* np.zeros((n,))
zeros(n) == [i \in 1..n |-> 0]

\* the inner loop of the rearranging loop, over the items of outcomes[k]
RECURSIVE rearrange(_, _, _, _)
rearrange(bitstring_counts, items, ind, n_keys) ==
    IF items = <<>> THEN bitstring_counts
    ELSE LET bitstring == Head(items).k
             counts == Head(items).v
             known == IF has_key(bitstring_counts, bitstring)
                      THEN bitstring_counts
                      ELSE set(bitstring_counts, bitstring, zeros(n_keys))
             array == get(known, bitstring)
         IN  rearrange(set(known, bitstring,
                           [array EXCEPT ![ind + 1] = counts]),
                       Tail(items), ind, n_keys)

(***************************************************************************)
(* The hardware-QPE notebook.  Its placeholders ("...") are filled the way *)
(* its text asks for: the run branch and the fake run submit the circuit   *)
(* with backend_sample, the counts are read with get_counts_from_job.      *)
(***************************************************************************)
Cell_name ==
    << Do("input", "your_name", {}, {"your_name"}),
       Do("input", "your_idm", {}, {"your_idm"}) >>

Cell_utilities ==
    << S({}, {"Iterable", "Union", "np", "QuantumCircuit", "QuantumRegister",
              "ClassicalRegister", "QFT", "PauliEvolutionGate",
              "SparsePauliOp", "Statevector", "Counts", "plot_histogram"}),
       S({}, {"from_bitstring"}),
       S({}, {"to_bitstring"}),
       S({"np", "Iterable"}, {"time_evolution_unitaries"}),
       S({"QuantumCircuit", "PauliEvolutionGate"}, {"controlled_U_gate"}),
       S({"np", "Union"}, {"get_targets"}),
       S({}, {"phase_from_counts"}),
       S({"QuantumCircuit", "Union"}, {"phase_from_statevector_simulation"}),
       S({}, {"print_info"}),
       S({}, {"get_correct_bitstring"}),
       S({"QuantumCircuit"}, {"bitstring_preparation_circuit"}) >>

Cell_qpe_circuit == <<S({"SparsePauliOp"}, {"qpe_circuit"})>>

Cell_parameters ==
    << S({}, {"r1", "r2"}),
       S({"SparsePauliOp"}, {"hamiltonian"}) >>

Cell_statevector ==
    << S({}, {"time_scaling", "target_idx"}),
       S({"qpe_circuit", "r1", "hamiltonian", "target_idx", "time_scaling"},
         {"circ", "target_phase", "target_state", "target_state_bitstring"}),
       S({"get_correct_bitstring", "target_phase", "r1"},
         {"correct_bitstring"}),
       Do("simulate", "sv_counts",
          {"phase_from_statevector_simulation", "circ"},
          {"sv_computed_phase", "sv_output_bitstring", "sv_fig",
           "sv_counts"}),
       S({"r1", "r2"}, {}),
       S({"print_info", "target_phase", "sv_computed_phase",
          "sv_output_bitstring", "correct_bitstring"}, {}),
       S({"sv_fig"}, {}) >>

Cell_measure ==
    << S({"ClassicalRegister", "r1"}, {"measurement_register"}),
       S({"circ", "measurement_register"}, {}),
       S({"circ", "measurement_register"}, {}) >>

Cell_draw ==
    << S({"circ"}, {"circ_fig"}),
       S({"circ_fig"}, {}) >>

\* the cell of Cell_account with its first line, "import io", left out
Cell_account_without_io ==
    << S({}, {}),
       S({}, {"QiskitRuntimeService"}),
       S({}, {"token"}),
       S({"QiskitRuntimeService", "token"}, {"service"}) >>

Cell_account ==
    << S({}, {"io"}),
       S({}, {"QiskitRuntimeService"}),
       S({}, {"token"}),
       S({"QiskitRuntimeService", "token"}, {"service"}) >>

\* fake_job_result = ... : "sample the circuit with the desired backend"
fake_job_result_fill ==
    Do("sample", [backend |-> "AerSimulator"],
       {"backend_sample", "backend_sim", "circ", "n_shots"},
       {"fake_job_result"})

\* fake_counts = ...
fake_counts_fill ==
    Do("counts", [job |-> "fake_job_result", counts |-> "fake_counts"],
       {"get_counts_from_job", "fake_job_result"}, {"fake_counts"})

\* real_job = ... in the run branch: the circuit is sent to real_backend
real_job_fill ==
    [reads |-> {"backend_sample", "real_backend", "circ", "n_shots"},
     writes |-> {"real_job"}, backend |-> "real_backend"]

\* real_counts = ...
real_counts_fill ==
    Do("counts", [job |-> "real_job", counts |-> "real_counts"],
       {"get_counts_from_job", "real_job"}, {"real_counts"})

Cell_fake_run ==
    << S({}, {"FakeBackend", "SamplerV2", "RuntimeJob",
              "generate_preset_pass_manager", "AerSimulator"}),
       S({"QuantumCircuit", "RuntimeJob"}, {"backend_sample"}),
       S({"RuntimeJob"}, {"get_counts_from_job"}),
       S({}, {"n_shots"}),
       S({"FakeBackend"}, {"fake_backend"}),
       S({"AerSimulator", "fake_backend"}, {"backend_sim"}),
       fake_job_result_fill,
       fake_counts_fill,
       Do("phase_from_counts", "fake_counts",
          {"phase_from_counts", "fake_counts"},
          {"fake_computed_phase", "fake_output_bitstring", "fake_fig"}),
       S({"print_info", "target_phase", "fake_computed_phase",
          "fake_output_bitstring", "correct_bitstring"}, {}),
       S({"fake_fig", "fake_backend"}, {}) >>

Cell_hardware_run ==
    << Do("least_busy", "", {"service", "r1", "r2"}, {"real_backend"}),
       S({}, {"n_shots"}),
       Do("input", "which", {}, {"which"}),
       Do("hardware branch", "", {"which"}, {}),
       real_counts_fill,
       Do("phase_from_counts", "real_counts",
          {"phase_from_counts", "real_counts"},
          {"real_computed_phase", "real_output_bitstring", "real_fig"}),
       S({"print_info", "target_phase", "real_computed_phase",
          "real_output_bitstring", "correct_bitstring"}, {}),
       S({"real_fig", "real_job"}, {}) >>

\* "compile" stands for the compilation of the cell's source, which comes
\* before the execution of its first statement
Cell_bonus ==
    << Do("compile", "", {}, {}),
       S({}, {"zipfile", "json", "datetime"}),
       S({}, {"fig_to_zip"}),
       S({}, {"np_dict_to_dict"}),
       S({"real_job"}, {"job"}),
       S({"hamiltonian"}, {"ham"}),
       Do("jobj", "",
          {"datetime", "job", "ham", "your_name", "your_idm", "fake_backend",
           "real_backend", "np_dict_to_dict", "sv_counts", "fake_counts",
           "real_counts", "target_phase", "correct_bitstring",
           "sv_computed_phase", "sv_output_bitstring", "fake_computed_phase",
           "fake_output_bitstring", "real_computed_phase",
           "real_output_bitstring"},
          {"jobj"}),
       Do("zf_fpath", "", {"your_name", "your_idm"}, {"zf_fpath"}),
       Do("ZipFile", "",
          {"zipfile", "zf_fpath", "fig_to_zip", "sv_fig", "fake_fig",
           "real_fig", "circ_fig", "io", "json", "jobj"},
          {"zf", "buf", "data"}),
       S({"zf_fpath"}, {}) >>

ibm_qpe ==
    << Cell_name, Cell_install, Cell_utilities, Cell_qpe_circuit,
       Cell_parameters, Cell_statevector, Cell_measure, Cell_draw,
       Cell_account, Cell_fake_run, Cell_hardware_run, Cell_bonus >>

\* what the branch taken by "if which == ..." reads and assigns
sample_branch(which) ==
    IF which = "run"
    THEN [reads |-> real_job_fill.reads, writes |-> real_job_fill.writes]
    ELSE IF which = "load"
    THEN [reads |-> {"service"}, writes |-> {"job_key", "real_job"}]
    ELSE [reads |-> {}, writes |-> {}]

(***************************************************************************)
(* Samplers and the archive (hardware-QPE notebook).                       *)
(***************************************************************************)
\* SamplerV2(backend).run([(isa_circuit,)], shots): one job submitted
backend_sample(backend) == <<Request("run", backend)>>

\* job.result()[0].data.meas.get_counts(): one blocking read of the result
get_counts_from_job(job) == <<Request("result", "job")>>

\* {k: int(v) for k, v in d.items()}
np_dict_to_dict(d) == [i \in 1..Len(d) |-> Item(d[i].k, [int |-> d[i].v])]

\* str.replace(old, new), for strings as sequences of characters
replace(str, old, new) ==
    [i \in 1..Len(str) |-> IF str[i] = old THEN new ELSE str[i]]

\* f"./{your_name.replace(" ","_")}_{your_idm}.zip"
zf_fpath(your_name, your_idm) ==
    <<".", "/">> \o replace(your_name, " ", "_") \o <<"_">> \o your_idm
    \o <<".", "z", "i", "p">>

\* the nested double quotes of that f-string are a SyntaxError before
\* Python 3.12
f_string_compiles(python) == python >= 12

\* zf.writestr(fn, <the pdf of fig>)
fig_to_zip(fig, fn, zf) == Append(zf, Item(fn, [pdf |-> fig]))

\* the body of "with zipfile.ZipFile(zf_fpath, mode="w") as zf"
ZipFile(jobj) ==
    LET sv == fig_to_zip("sv_fig", "stevector_results.pdf", <<>>)
        fake == fig_to_zip("fake_fig", "fake_results.pdf", sv)
        real == fig_to_zip("real_fig", "real_results.pdf", fake)
        drawn == fig_to_zip("circ_fig", "circuit.pdf", real)
    IN  Append(drawn, Item("specs.json", [json |-> jobj]))

\* the names and matriculation numbers the students fill in
YourNames == {<<"a">>, <<"a", " ", "b">>}
YourIdms == {<<"x", "1">>}

\* the Python 3 minor versions of the kernels: the one the notebook was
\* saved with, and the first one with the new f-string grammar
Pythons == {10, 12}

(***************************************************************************)
(* State.                                                                  *)
(***************************************************************************)
VARIABLES
    nb,             \* the notebook (or group of its functions) the kernel runs
    pc,             \* where the run stands
    call,           \* the utility function called last, with its arguments
    ret,            \* what that call returned
    num_qubits,     \* advanced basics: the global num_qubits
    hamiltonian,    \* advanced basics: [J, g, sum] once the cell has run
    circ,           \* the circuit being built
    frame,          \* the local variables of the function or loop executed
    python,         \* the kernel runs Python 3.<python>
    cell,           \* the code cell being run, counted from 1
    stmt,           \* the next statement of that cell, counted from 1
    defined,        \* the global names of the kernel
    error,          \* the exception that stopped the run
    value,          \* the values of the globals the model follows
    sampled,        \* the samples sample_circuit has returned, in order
    requests,       \* the requests sent to the service and the backends
    plots,          \* the calls of plot_estimator_result, in order
    files           \* the files written, a dict from path to zip entries

vars ==
    <<nb, pc, call, ret, num_qubits, hamiltonian, circ, frame, python, cell,
      stmt, defined, error, value, sampled, requests, plots, files>>

varsUtils == <<call, ret>>
varsIsing == <<num_qubits, hamiltonian>>
varsCirc == <<circ, frame>>
varsKernel ==
    <<python, cell, stmt, defined, error, value, sampled, requests, plots,
      files>>
varsFunctions == <<nb, python, call, ret, num_qubits, hamiltonian, circ>>

Notebooks ==
    {"07b_ibm_qpe:utilities", "03a_advanced_basics:hamiltonian",
     "04_quantum_phase_estimation:qpe_circuit",
     "03b_fourier_transform:build_qft_circuit",
     "03b_fourier_transform:check_results",
     "07b_ibm_qpe:time_evolution_unitaries",
     "07b_ibm_qpe:manual execution"}

\* the notebooks run cell by cell
Programs ==
    [n \in {"07a_connect_to_ibmq"} |-> connect_to_ibmq]
    @@ [n \in {"07b_ibm_qpe"} |-> ibm_qpe]

None == [none |-> TRUE]

\* the globals whose values the model follows
Tracked ==
    {"fine_param_sweep", "sparse_param_sweep", "which", "outcomes",
     "bitstring_counts", "ideal_result", "fake_result", "real_result",
     "fake_mimic_result", "your_name", "your_idm", "sv_counts",
     "fake_counts", "real_counts", "jobj", "zf_fpath"}

Init ==
    /\ nb \in Notebooks \cup DOMAIN Programs
    /\ pc = IF nb \in DOMAIN Programs THEN "running" ELSE "start"
    /\ call = None
    /\ ret = None
    /\ num_qubits = 0
    /\ hamiltonian = None
    /\ circ = <<>>
    /\ frame = None
    /\ python \in Pythons
    /\ cell = 1
    /\ stmt = 1
    /\ defined = {}
    /\ error = None
    /\ value = [n \in Tracked |-> None]
    /\ sampled = <<>>
    /\ requests = <<>>
    /\ plots = <<>>
    /\ files = <<>>

(***************************************************************************)
(* Calls of the utility functions (hardware-QPE notebook).                 *)
(***************************************************************************)
\* from_bitstring(n_qubits, b) for b = to_bitstring(n_qubits, ind), and for an
\* argument that is no str
Call_from_bitstring ==
    /\ nb = "07b_ibm_qpe:utilities"
    /\ \E n \in 1..MaxQubits :
       \E ind \in 0..(Pow2(n) - 1) :
       \E arg \in {PyStr(to_bitstring(n, ind)), PyInt(ind)} :
          /\ call' = [fn |-> "from_bitstring", n_qubits |-> n, ind |-> ind,
                      bitstring |-> arg]
          /\ ret' = IF isinstance_str(arg)
                     THEN [ind |-> from_bitstring(n, arg)]
                     ELSE [passed |-> from_bitstring(n, arg)]
    /\ pc' = "called"
    /\ UNCHANGED <<nb, varsKernel, varsIsing, varsCirc>>

\* correct_bitstring = get_correct_bitstring(target_phase, r1), decoded by
\* phase_from_counts from counts in which it is the only outcome
Call_phase_from_counts ==
    /\ nb = "07b_ibm_qpe:utilities"
    /\ \E r1 \in 1..MaxQubits :
       \E t \in 0..(Pow2(PhaseBits) - 1) :
          LET target_phase == NormQ(<<t, Pow2(PhaseBits)>>)
              correct_bitstring == get_correct_bitstring(target_phase, r1)
          IN  /\ call' = [fn |-> "phase_from_counts",
                          target_phase |-> target_phase, r1 |-> r1,
                          correct_bitstring |-> correct_bitstring]
              /\ ret' = phase_from_counts(<<Item(correct_bitstring, 1)>>)
    /\ pc' = "called"
    /\ UNCHANGED <<nb, varsKernel, varsIsing, varsCirc>>

\* phase_from_counts(counts) for the counts of a measured register
Call_phase_from_measured_counts ==
    /\ nb = "07b_ibm_qpe:utilities"
    /\ \E t \in 1..MaxQubits :
       \E b \in Bitstrings(t) :
       \E counts \in CountsOf(b) :
          /\ call' = [fn |-> "phase_from_counts(counts)", counts |-> counts]
          /\ ret' = phase_from_counts(counts)
    /\ pc' = "called"
    /\ UNCHANGED <<nb, varsKernel, varsIsing, varsCirc>>

\* time_unitaries = time_evolution_unitaries(r1, ham, time): the generator
\* object is created, none of its body runs
Call_time_evolution_unitaries ==
    /\ nb = "07b_ibm_qpe:time_evolution_unitaries"
    /\ pc = "start"
    /\ \E r1 \in 0..MaxQubits, ham \in Hams, time \in Times :
          /\ call' = [fn |-> "time_evolution_unitaries", r1 |-> r1,
                      ham |-> ham, time |-> time]
          /\ frame' = [m |-> 0]
    /\ ret' = [yielded |-> <<>>]
    /\ pc' = "generator"
    /\ UNCHANGED <<nb, varsKernel, varsIsing, circ>>

\* next(time_unitaries): the next gate, or StopIteration
Next_time_evolution_unitaries ==
    /\ nb = "07b_ibm_qpe:time_evolution_unitaries"
    /\ pc = "generator"
    /\ LET got == time_evolution_unitaries(call.r1, call.ham, call.time,
                                           frame.m)
       IN  IF "yield" \in DOMAIN got
           THEN /\ ret' = [yielded |-> Append(ret.yielded, got.yield)]
                /\ frame' = [m |-> frame.m + 1]
                /\ pc' = pc
           ELSE /\ pc' = "exhausted"
                /\ UNCHANGED <<ret, frame>>
    /\ UNCHANGED <<nb, call, varsKernel, varsIsing, circ>>

(***************************************************************************)
(* Manual execution of the statevector cell and of the measurement cell    *)
(* of the hardware-QPE notebook, in any order, any number of times, in a   *)
(* kernel where the cells before them have run.  An exception ends the     *)
(* execution of the cell, not the session.                                 *)
(***************************************************************************)
\* the cells up to r1=..., r2=..., hamiltonian=... have run
RunParametersCells ==
    /\ nb = "07b_ibm_qpe:manual execution"
    /\ pc = "start"
    /\ \E r1 \in 1..MaxQubits :
          frame' = [r1 |-> r1, runs |-> 0, circ |-> None, simulated |-> <<>>,
                    raised |-> "no"]
    /\ pc' = "idle"
    /\ UNCHANGED <<nb, varsKernel, varsUtils, varsIsing, circ>>

\* the statevector cell with a circuit that is built once and then kept
RunStatevectorCell_keeping_circ ==
    /\ nb = "07b_ibm_qpe:manual execution"
    /\ pc = "idle"
    /\ frame.runs < MaxExecutions
    /\ LET built == IF frame.circ = None THEN qpe_circuit(frame.r1)
                    ELSE frame.circ.is
           sv == phase_from_statevector_simulation(built)
       IN  frame' = [frame EXCEPT
                        !.runs = @ + 1,
                        !.circ = [is |-> built],
                        !.simulated = Append(@, built),
                        !.raised = IF "raised" \in DOMAIN sv
                                   THEN sv.raised ELSE "no"]
    /\ UNCHANGED <<nb, pc, varsKernel, varsUtils, varsIsing, circ>>

\* circ, ... = qpe_circuit(...); ... = phase_from_statevector_simulation(circ)
RunStatevectorCell ==
    /\ nb = "07b_ibm_qpe:manual execution"
    /\ pc = "idle"
    /\ frame.runs < MaxExecutions
    /\ LET built == qpe_circuit(frame.r1)
           sv == phase_from_statevector_simulation(built)
       IN  frame' = [frame EXCEPT
                        !.runs = @ + 1,
                        !.circ = [is |-> built],
                        !.simulated = Append(@, built),
                        !.raised = IF "raised" \in DOMAIN sv
                                   THEN sv.raised ELSE "no"]
    /\ UNCHANGED <<nb, pc, varsKernel, varsUtils, varsIsing, circ>>

\* measurement_register = ClassicalRegister(r1, "meas")
\* circ.add_register(measurement_register)
\* circ.measure(circ.qregs[0], measurement_register)
RunMeasurementCell ==
    /\ nb = "07b_ibm_qpe:manual execution"
    /\ pc = "idle"
    /\ frame.runs < MaxExecutions
    /\ LET measurement_register == ClassicalRegister(frame.r1, "meas")
       IN  IF frame.circ = None
           THEN frame' = [frame EXCEPT !.runs = @ + 1,
                                       !.raised = "NameError"]
           ELSE LET added == add_register(frame.circ.is, measurement_register)
                IN  IF "raised" \in DOMAIN added
                    THEN frame' = [frame EXCEPT !.runs = @ + 1,
                                                !.raised = added.raised]
                    ELSE frame' = [frame EXCEPT
                                      !.runs = @ + 1,
                                      !.raised = "no",
                                      !.circ =
                                          [is |-> measure(
                                                      added,
                                                      first_register(frame.r1),
                                                      measurement_register)]]
    /\ UNCHANGED <<nb, pc, varsKernel, varsUtils, varsIsing, circ>>

(***************************************************************************)
(* The Hamiltonian cell (advanced-basics notebook).                        *)
(***************************************************************************)
HamiltonianCell ==
    /\ nb = "03a_advanced_basics:hamiltonian"
    /\ pc = "start"
    /\ \E n \in 2..MaxNumQubits :
          /\ num_qubits' = n
          /\ hamiltonian' = [J |-> hamiltonian_J(n), g |-> hamiltonian_g(n),
                             sum |-> hamiltonian_J(n) \o hamiltonian_g(n)]
    /\ pc' = "done"
    /\ UNCHANGED <<nb, varsKernel, varsUtils, varsCirc>>

(***************************************************************************)
(* qpe_circuit(r1, r2) of the phase-estimation notebook, statement by      *)
(* statement.  random_unitary_iter is a generator: its body runs up to the *)
(* loop when the first unitary is asked for.                               *)
(***************************************************************************)
\* the registers, the circuit, circ.h(first_register), the generator object
qpe_circuit_begin ==
    /\ nb = "04_quantum_phase_estimation:qpe_circuit"
    /\ pc = "start"
    /\ \E r1 \in 1..MaxQubits, r2 \in 1..MaxR2 :
          /\ frame' = [r1 |-> r1, r2 |-> r2, ind |-> 0, rham |-> 0,
                       get_phase_and_psi |-> TRUE,
                       phase |-> None, psi |-> None]
          /\ circ' = h(<<>>, first_register(r1))
    /\ pc' = "for"
    /\ UNCHANGED <<nb, varsKernel, varsUtils, varsIsing>>

\* one iteration of "for ind, unitary in enumerate(unitaries)"
qpe_circuit_for ==
    /\ nb = "04_quantum_phase_estimation:qpe_circuit"
    /\ pc = "for"
    /\ frame.ind < frame.r1
    /\ \E draw \in 1..NumDraws, idx \in 0..(Pow2(frame.r2) - 1),
          turns \in Turns :
          LET rham == IF frame.ind = 0 THEN draw ELSE frame.rham
              unitary == random_unitary_iter(rham, frame.ind)
              first == frame.get_phase_and_psi
              pp == get_random_phase_and_psi(unitary, idx, turns)
          IN  /\ frame' = [frame EXCEPT
                              !.rham = rham,
                              !.ind = @ + 1,
                              !.get_phase_and_psi = FALSE,
                              !.phase = IF first THEN pp.phase ELSE @,
                              !.psi = IF first THEN pp.psi ELSE @]
              /\ circ' = controlled_U_gate(circ, frame.ind,
                                           second_register(frame.r1, frame.r2),
                                           unitary)
    /\ UNCHANGED <<nb, varsKernel, pc, varsUtils, varsIsing>>

\* the generator is exhausted: the inverse QFT, and the return
qpe_circuit_end ==
    /\ nb = "04_quantum_phase_estimation:qpe_circuit"
    /\ pc = "for"
    /\ frame.ind >= frame.r1
    /\ circ' = append_inverse_QFT(circ, first_register(frame.r1))
    /\ pc' = "returned"
    /\ UNCHANGED <<nb, varsKernel, frame, varsUtils, varsIsing>>

\* get_phase_from_qpe_circuit(circ, psi) on the returned circuit
Call_get_phase_from_qpe_circuit ==
    /\ nb = "04_quantum_phase_estimation:qpe_circuit"
    /\ pc = "returned"
    /\ \E b \in Bitstrings(frame.r1) :
       \E counts \in CountsOf(b) :
          /\ call' = [fn |-> "get_phase_from_qpe_circuit", counts |-> counts]
          /\ ret' = get_phase_from_qpe_circuit(counts)
    /\ pc' = "decoded"
    /\ UNCHANGED <<nb, varsKernel, varsIsing, varsCirc>>

(***************************************************************************)
(* A call of build_qft_circuit (Fourier transform notebook).               *)
(***************************************************************************)
Call_build_qft_circuit ==
    /\ nb = "03b_fourier_transform:build_qft_circuit"
    /\ pc = "start"
    /\ \E n \in 1..MaxQftQubits :
          /\ frame' = [n_qubits |-> n]
          /\ circ' = build_qft_circuit(n)
    /\ pc' = "returned"
    /\ UNCHANGED <<nb, varsKernel, varsUtils, varsIsing>>

\* check_results(initial_state, n_qubits) for a state of n_qubits qubits
Call_check_results ==
    /\ nb = "03b_fourier_transform:check_results"
    /\ pc = "start"
    /\ \E n_qubits \in FftQubits :
       \E x \in [1..Pow2(n_qubits) -> (-MaxAmp)..MaxAmp] :
          /\ \E j \in 1..Len(x) : x[j] # 0
          /\ call' = [fn |-> "check_results", n_qubits |-> n_qubits,
                      initial_state |-> x]
          /\ ret' = check_results(x)
    /\ pc' = "called"
    /\ UNCHANGED <<nb, varsKernel, varsIsing, varsCirc>>

(***************************************************************************)
(* The kernel: the cells of a notebook, run once, in document order.  An  *)
(* exception ends the run.                                                *)
(***************************************************************************)
Running == nb \in DOMAIN Programs /\ pc = "running"

Statement == Programs[nb][cell][stmt]

Does(does) == Running /\ Statement.does = does

\* the branch "if which == ..." takes
Branch ==
    IF nb = "07a_connect_to_ibmq"
    THEN estimate_branch(value["which"].is)
    ELSE sample_branch(value["which"].is)

Reads ==
    IF Statement.does = "hardware branch"
    THEN Statement.reads \cup Branch.reads
    ELSE Statement.reads

Writes ==
    IF Statement.does = "hardware branch"
    THEN Statement.writes \cup Branch.writes
    ELSE Statement.writes

\* the statement reads a name that no statement has assigned
NameError == ~ (Free(Reads) \subseteq defined)

\* the statement after this one
Following ==
    IF stmt < Len(Programs[nb][cell])
    THEN [cell |-> cell, stmt |-> stmt + 1, pc |-> "running"]
    ELSE IF cell < Len(Programs[nb])
    THEN [cell |-> cell + 1, stmt |-> 1, pc |-> "running"]
    ELSE [cell |-> cell, stmt |-> stmt, pc |-> "done"]

\* the statement completes: its names are assigned
Advance ==
    /\ defined' = defined \cup Writes
    /\ cell' = Following.cell
    /\ stmt' = Following.stmt
    /\ pc' = Following.pc
    /\ error' = error

Raise(exception) ==
    /\ pc' = "error"
    /\ error' = [raised |-> exception, cell |-> cell, stmt |-> stmt]
    /\ UNCHANGED <<cell, stmt, defined>>

\* the requests of this statement, in the order they are sent
Send(reqs) ==
    requests' = requests \o
        [i \in 1..Len(reqs) |->
            [op |-> reqs[i].op, on |-> reqs[i].on, cell |-> cell,
             stmt |-> stmt]]

Assign(name, v) == value' = [value EXCEPT ![name] = [is |-> v]]

\* imports, defs, assignments and calls that only read and assign names
ExecNames ==
    /\ Does("names")
    /\ ~ NameError
    /\ Advance
    /\ UNCHANGED <<value, sampled, requests, plots, files, frame,
                   varsFunctions>>

RaiseNameError ==
    /\ Running
    /\ Statement.does # "compile"
    /\ NameError
    /\ Raise("NameError")
    /\ UNCHANGED <<value, sampled, requests, plots, files, frame,
                   varsFunctions>>

\* what the user of the notebook can write on the lines meant to be edited
Inputs(name) ==
    CASE name = "fine_param_sweep" -> Sweeps
      [] name = "sparse_param_sweep" -> {sparse_param_sweep}
      [] name = "which" -> {"run", "load", "neither", "Run"}
      [] name = "your_name" -> YourNames
      [] name = "your_idm" -> YourIdms

ExecInput ==
    /\ Does("input")
    /\ ~ NameError
    /\ \E v \in Inputs(Statement.arg) : Assign(Statement.arg, v)
    /\ Advance
    /\ UNCHANGED <<sampled, requests, plots, files, frame, varsFunctions>>

(***************************************************************************)
(* Statements of the connect-to-hardware notebook.                         *)
(***************************************************************************)
\* result = sv_estimate_observables(...) or backend_estimate_observables(...)
ExecEstimate ==
    /\ Does("estimate")
    /\ ~ NameError
    /\ LET arg == Statement.arg
           param_sweep == value[arg.sweep].is
           out == IF arg.backend = "statevector"
                  THEN sv_estimate_observables(observables_labels, param_sweep)
                  ELSE backend_estimate_observables(
                           arg.backend, observables_labels, param_sweep)
       IN  /\ Assign(arg.result, out.result)
           /\ Send(out.requests)
    /\ Advance
    /\ UNCHANGED <<sampled, plots, files, frame, varsFunctions>>

\* plot_estimator_result(result=..., param_sweep=..., ...)
ExecPlot ==
    /\ Does("plot")
    /\ ~ NameError
    /\ LET arg == Statement.arg
           plot == plot_estimator_result(
                       value[arg.result].is, value[arg.sweep].is,
                       value["fine_param_sweep"].is,
                       IF arg.overlay THEN value["ideal_result"].is ELSE None)
       IN  /\ plots' = Append(plots, [result |-> arg.result] @@ plot)
           /\ IF errorbar_raises(plot) THEN Raise("ValueError") ELSE Advance
    /\ UNCHANGED <<value, sampled, requests, files, frame, varsFunctions>>

\* outcomes={}; n_shots=1000; bitstring_counts={}
ExecEmptyDicts ==
    /\ Does("empty dicts")
    /\ value' = [value EXCEPT !["outcomes"] = [is |-> <<>>],
                              !["bitstring_counts"] = [is |-> <<>>]]
    /\ frame' = [ind |-> 0]
    /\ Advance
    /\ UNCHANGED <<sampled, requests, plots, files, varsFunctions>>

\* for p in fine_param_sweep: outcomes[p] = sample_circuit(...)
ExecSampleLoop ==
    /\ Does("sample loop")
    /\ ~ NameError
    /\ LET fine_param_sweep == value["fine_param_sweep"].is
       IN  IF frame.ind < Len(fine_param_sweep)
           THEN \E sample \in Samples :
                   /\ Assign("outcomes",
                             set(value["outcomes"].is,
                                 fine_param_sweep[frame.ind + 1], sample))
                   /\ sampled' = Append(sampled, sample)
                   /\ frame' = [ind |-> frame.ind + 1]
                   /\ defined' = defined \cup Writes
                   /\ UNCHANGED <<pc, cell, stmt, error>>
           ELSE /\ frame' = [ind |-> 0]
                /\ Advance
                /\ UNCHANGED <<value, sampled>>
    /\ UNCHANGED <<requests, plots, files, varsFunctions>>

\* for ind,k in enumerate(outcomes.keys()): for bitstring, counts in ...
ExecRearrangeLoop ==
    /\ Does("rearrange loop")
    /\ ~ NameError
    /\ LET outcomes == value["outcomes"].is
       IN  IF frame.ind < Len(keys(outcomes))
           THEN /\ Assign("bitstring_counts",
                          rearrange(value["bitstring_counts"].is,
                                    get(outcomes, keys(outcomes)[frame.ind + 1]),
                                    frame.ind, Len(keys(outcomes))))
                /\ frame' = [ind |-> frame.ind + 1]
                /\ defined' = defined \cup Writes
                /\ UNCHANGED <<pc, cell, stmt, error>>
           ELSE /\ Advance
                /\ UNCHANGED <<value, frame>>
    /\ UNCHANGED <<sampled, requests, plots, files, varsFunctions>>

\* for bitstring in bitstring_counts.keys(): ax.plot(fine_param_sweep, ...)
ExecPlotCounts ==
    /\ Does("plot counts")
    /\ ~ NameError
    /\ LET bitstring_counts == value["bitstring_counts"].is
       IN  IF \E i \in 1..Len(bitstring_counts) :
                 Len(bitstring_counts[i].v) # Len(value["fine_param_sweep"].is)
           THEN Raise("ValueError")
           ELSE Advance
    /\ UNCHANGED <<value, sampled, requests, plots, files, frame,
                   varsFunctions>>

\* real_backend = service.least_busy(...)
ExecLeastBusy ==
    /\ Does("least_busy")
    /\ ~ NameError
    /\ Send(<<Request("least_busy", "service")>>)
    /\ Advance
    /\ UNCHANGED <<value, sampled, plots, files, frame, varsFunctions>>

\* if which == "run": ... elif which == "load": ...   (no else)
ExecEstimateBranch ==
    /\ nb = "07a_connect_to_ibmq"
    /\ Does("hardware branch")
    /\ ~ NameError
    /\ LET which == value["which"].is
       IN  IF which = "run"
           THEN LET out == backend_estimate_observables(
                               "real_backend", observables_labels,
                               value["sparse_param_sweep"].is)
                IN  /\ Assign("real_result", out.result)
                    /\ Send(out.requests)
           ELSE IF which = "load"
           THEN \E stored \in StoredSweeps :
                   /\ Assign("real_result",
                             PubResult(observables_labels, stored))
                   /\ Send(<<Request("job", "service"),
                             Request("result", "job")>>)
           ELSE UNCHANGED <<value, requests>>
    /\ Advance
    /\ UNCHANGED <<sampled, plots, files, frame, varsFunctions>>

(***************************************************************************)
(* Statements of the hardware-QPE notebook.                                *)
(***************************************************************************)
\* ..., sv_counts = phase_from_statevector_simulation(circ)
ExecSimulate ==
    /\ Does("simulate")
    /\ ~ NameError
    /\ \E counts \in Samples :
          IF "raised" \in DOMAIN phase_from_counts(counts)
          THEN Raise(phase_from_counts(counts).raised) /\ value' = value
          ELSE Assign(Statement.arg, counts) /\ Advance
    /\ UNCHANGED <<sampled, requests, plots, files, frame, varsFunctions>>

\* job = backend_sample(backend, circ, n_shots)
ExecSample ==
    /\ Does("sample")
    /\ ~ NameError
    /\ Send(backend_sample(Statement.arg.backend))
    /\ Advance
    /\ UNCHANGED <<value, sampled, plots, files, frame, varsFunctions>>

\* counts = get_counts_from_job(job)
ExecCounts ==
    /\ Does("counts")
    /\ ~ NameError
    /\ Send(get_counts_from_job(Statement.arg.job))
    /\ \E counts \in Samples : Assign(Statement.arg.counts, counts)
    /\ Advance
    /\ UNCHANGED <<sampled, plots, files, frame, varsFunctions>>

\* computed_phase, output_bitstring, fig = phase_from_counts(counts)
ExecPhaseFromCounts ==
    /\ Does("phase_from_counts")
    /\ ~ NameError
    /\ LET out == phase_from_counts(value[Statement.arg].is)
       IN  IF "raised" \in DOMAIN out THEN Raise(out.raised) ELSE Advance
    /\ UNCHANGED <<value, sampled, requests, plots, files, frame,
                   varsFunctions>>

\* the same statement without its else branch
ExecSampleBranch_without_else ==
    /\ nb = "07b_ibm_qpe"
    /\ Does("hardware branch")
    /\ ~ NameError
    /\ LET which == value["which"].is
       IN  IF which = "run"
           THEN Send(backend_sample(real_job_fill.backend))
           ELSE IF which = "load"
           THEN Send(<<Request("job", "service")>>)
           ELSE requests' = requests
    /\ Advance
    /\ UNCHANGED <<value, sampled, plots, files, frame, varsFunctions>>

\* if which == "run": ... elif which == "load": ... else: raise ValueError
ExecSampleBranch ==
    /\ nb = "07b_ibm_qpe"
    /\ Does("hardware branch")
    /\ ~ NameError
    /\ LET which == value["which"].is
       IN  IF which = "run"
           THEN Send(backend_sample(real_job_fill.backend)) /\ Advance
           ELSE IF which = "load"
           THEN Send(<<Request("job", "service")>>) /\ Advance
           ELSE Raise("ValueError") /\ requests' = requests
    /\ UNCHANGED <<value, sampled, plots, files, frame, varsFunctions>>

\* the source of the cell is compiled before any of it runs
ExecCompile ==
    /\ Does("compile")
    /\ IF f_string_compiles(python) THEN Advance ELSE Raise("SyntaxError")
    /\ UNCHANGED <<value, sampled, requests, plots, files, frame,
                   varsFunctions>>

\* jobj = {...}: of its items, the name, the number and the three counts
ExecJobj ==
    /\ Does("jobj")
    /\ ~ NameError
    /\ Assign("jobj",
              << Item("__name", [str |-> value["your_name"].is]),
                 Item("__idm", [str |-> value["your_idm"].is]),
                 Item("__sv_counts",
                      [dict |-> np_dict_to_dict(value["sv_counts"].is)]),
                 Item("__fake_counts",
                      [dict |-> np_dict_to_dict(value["fake_counts"].is)]),
                 Item("__real_counts",
                      [dict |-> np_dict_to_dict(value["real_counts"].is)]) >>)
    /\ Advance
    /\ UNCHANGED <<sampled, requests, plots, files, frame, varsFunctions>>

ExecZfFpath ==
    /\ Does("zf_fpath")
    /\ ~ NameError
    /\ Assign("zf_fpath",
              zf_fpath(value["your_name"].is, value["your_idm"].is))
    /\ Advance
    /\ UNCHANGED <<sampled, requests, plots, files, frame, varsFunctions>>

\* with zipfile.ZipFile(zf_fpath, mode="w") as zf: ...
ExecZipFile ==
    /\ Does("ZipFile")
    /\ ~ NameError
    /\ files' = set(files, value["zf_fpath"].is, ZipFile(value["jobj"].is))
    /\ Advance
    /\ UNCHANGED <<value, sampled, requests, plots, frame, varsFunctions>>

Next ==
    \/ Call_from_bitstring
    \/ Call_phase_from_counts
    \/ HamiltonianCell
    \/ qpe_circuit_begin
    \/ qpe_circuit_for
    \/ qpe_circuit_end
    \/ Call_build_qft_circuit
    \/ Call_check_results
    \/ Call_phase_from_measured_counts
    \/ Call_get_phase_from_qpe_circuit
    \/ Call_time_evolution_unitaries
    \/ Next_time_evolution_unitaries
    \/ RunParametersCells
    \/ RunStatevectorCell
    \/ RunMeasurementCell
    \/ ExecNames
    \/ RaiseNameError
    \/ ExecInput
    \/ ExecEstimate
    \/ ExecPlot
    \/ ExecEmptyDicts
    \/ ExecSampleLoop
    \/ ExecRearrangeLoop
    \/ ExecPlotCounts
    \/ ExecLeastBusy
    \/ ExecEstimateBranch
    \/ ExecSimulate
    \/ ExecSample
    \/ ExecCounts
    \/ ExecPhaseFromCounts
    \/ ExecSampleBranch
    \/ ExecCompile
    \/ ExecJobj
    \/ ExecZfFpath
    \/ ExecZipFile

Spec == Init /\ [][Next]_vars

(***************************************************************************)
(* C4 (as claimed): the phase decoded from get_correct_bitstring(          *)
(* target_phase, r1) differs from target_phase by less than 2^(-r1), the   *)
(* error being |target_phase - computed_phase|.                            *)
(***************************************************************************)
C4_ErrorBelowResolution ==
    (nb = "07b_ibm_qpe:utilities" /\ pc = "called"
        /\ call.fn = "phase_from_counts")
    => LessQ(AbsQ(SubQ(call.target_phase, ret.phase)), PowQ(-call.r1))

(***************************************************************************)
(* C5 (as claimed): from_bitstring(n_qubits, to_bitstring(n_qubits, ind))  *)
(* is ind, and to_bitstring(n_qubits, ind) is the n_qubits-character       *)
(* zero-padded binary representation of ind.                               *)
(***************************************************************************)
\* the number a bitstring denotes, most significant character first
RECURSIVE BinaryValue(_)
BinaryValue(b) ==
    IF b = <<>> THEN 0
    ELSE 2 * BinaryValue(SubSeq(b, 1, Len(b) - 1)) + int(b[Len(b)])

C5_RoundTrip ==
    (nb = "07b_ibm_qpe:utilities" /\ pc = "called"
        /\ call.fn = "from_bitstring" /\ isinstance_str(call.bitstring))
    => /\ Len(call.bitstring.str) = call.n_qubits
       /\ BinaryValue(call.bitstring.str) = call.ind
       /\ ret.ind = IntQ(call.ind)

(***************************************************************************)
(* C9 (as claimed): the Hamiltonian has exactly one ZZ term of coefficient *)
(* -J for each of the num_qubits-1 neighbouring pairs, exactly one X term  *)
(* of coefficient g on every one of the num_qubits qubits, and every label *)
(* has num_qubits characters.                                              *)
(***************************************************************************)
\* the label with the characters c at the positions of at, "I" elsewhere
LabelWith(n, at, c) == [k \in 1..n |-> IF k \in at THEN c ELSE "I"]

\* how many terms of op equal the term t
Occurrences(op, t) == Cardinality({k \in 1..Len(op) : op[k] = t})

C9_IsingHamiltonian ==
    (nb = "03a_advanced_basics:hamiltonian" /\ pc = "done")
    => /\ \A k \in 1..Len(hamiltonian.sum) :
             Len(hamiltonian.sum[k].label) = num_qubits
       /\ \A q \in 1..(num_qubits - 1) :
             Occurrences(hamiltonian.sum,
                         SparsePauliOp(LabelWith(num_qubits, {q, q + 1}, "Z"), -J)) = 1
       /\ \A q \in 1..num_qubits :
             Occurrences(hamiltonian.sum,
                         SparsePauliOp(LabelWith(num_qubits, {q}, "X"), g)) = 1
       /\ Len(hamiltonian.sum) = 2 * num_qubits - 1

(***************************************************************************)
(* C6: qpe_circuit(r1, r2) builds a Hadamard on every qubit of the first   *)
(* register, then for j = 0..r1-1 in that order one controlled unitary     *)
(* with control first-register qubit j, targets all qubits of the second   *)
(* register and unitary U^(2^j), then one inverse QFT with swaps on the    *)
(* first register; nothing else, and only the controlled unitaries touch   *)
(* the second register.                                                    *)
(***************************************************************************)
Touches(instr, qubits) ==
    \E a \in 1..Len(instr.qargs), b \in 1..Len(qubits) : instr.qargs[a] = qubits[b]

C6_QpeGateSequence ==
    (nb = "04_quantum_phase_estimation:qpe_circuit" /\ pc = "returned")
    => LET r1 == frame.r1
           r2 == frame.r2
       IN  /\ Len(circ) = 2 * r1 + 1
           /\ \A q \in 0..(r1 - 1) :
                 /\ circ[q + 1].gate = "h"
                 /\ circ[q + 1].qargs = <<q>>
           /\ \A j \in 0..(r1 - 1) :
                 /\ circ[r1 + j + 1].gate = "c-unitary"
                 /\ circ[r1 + j + 1].qargs
                       = <<j>> \o [k \in 1..r2 |-> r1 + k - 1]
                 /\ circ[r1 + j + 1].of.num_ctrl_qubits = 1
                 \* U^(2^j), for the one U = expm(1j * rham) of this call
                 /\ circ[r1 + j + 1].of.unitary.expm_i = frame.rham
                 /\ circ[r1 + j + 1].of.unitary.times = 2 ^ j
           /\ circ[2 * r1 + 1].gate = "IQFT"
           /\ circ[2 * r1 + 1].qargs = [k \in 1..r1 |-> k - 1]
           /\ circ[2 * r1 + 1].of
                 = [num_qubits |-> r1, inverse |-> TRUE, do_swaps |-> TRUE]
           /\ \A p \in 1..Len(circ) :
                 Touches(circ[p], [k \in 1..r2 |-> r1 + k - 1])
                     => circ[p].gate = "c-unitary"

\* qpe_circuit(3, 2) has returned
C6_Witness ==
    /\ nb = "04_quantum_phase_estimation:qpe_circuit"
    /\ pc = "returned"
    /\ frame.r1 = 3
    /\ frame.r2 = 2
    /\ Len(circ) = 7

(***************************************************************************)
(* C7: build_qft_circuit(n) applies, for each qubit q_i in turn, a         *)
(* Hadamard on q_i and then one controlled-R_k for every q_j with j > i    *)
(* (control q_j, target q_i, k = j - i), so that q_{n-1} only gets a       *)
(* Hadamard, and then swaps q_i with q_{n-1-i} for i < floor(n/2): n       *)
(* Hadamards, n(n-1)/2 controlled phase gates and floor(n/2) swaps.        *)
(***************************************************************************)
Positions(c, gate) == {p \in 1..Len(c) : c[p].gate = gate}

\* the position of the only instruction of c that is gate on qargs (0: none
\* or several)
PositionOf(c, gate, qargs) ==
    LET at == {p \in Positions(c, gate) : c[p].qargs = qargs}
    IN  IF Cardinality(at) = 1 THEN CHOOSE p \in at : TRUE ELSE 0

CellOf(does) ==
    CHOOSE c \in 1..Len(Programs[nb]) :
        \E s \in 1..Len(Programs[nb][c]) : Programs[nb][c][s].does = does

StmtIn(c, does) ==
    CHOOSE s \in 1..Len(Programs[nb][c]) : Programs[nb][c][s].does = does

\* statement s of cell c has completed
Past(c, s) == pc = "done" \/ cell > c \/ (cell = c /\ stmt > s)

HardwareCell == CellOf("hardware branch")

BranchStmt == StmtIn(HardwareCell, "hardware branch")

\* the statement that reads the result of the hardware job
ResultStmt ==
    IF nb = "07a_connect_to_ibmq" THEN BranchStmt
    ELSE StmtIn(HardwareCell, "counts")

FromHardwareBranch(r) ==
    r.cell = HardwareCell /\ r.stmt \in {BranchStmt, ResultStmt}

SubmittedToRealBackend(r) == r.op = "run" /\ r.on = "real_backend"

Ops(reqs) == [i \in 1..Len(reqs) |-> reqs[i].op]

(***************************************************************************)
(* C1.  In the hardware cells of both hardware notebooks, with which ==    *)
(* "load" no job is ever submitted to the real backend and the branch      *)
(* sends one lookup of the job by its id and one read of its result; with  *)
(* which == "run" it submits exactly one job to the real backend and reads *)
(* its result once.  Nothing is sent twice.                                *)
(***************************************************************************)
C1_HardwareRequests ==
    (nb \in DOMAIN Programs /\ value["which"] # None) =>
        LET which == value["which"].is
            sent == SelectSeq(requests, FromHardwareBranch)
            submitted == SelectSeq(requests, SubmittedToRealBackend)
            read == Past(HardwareCell, ResultStmt)
        IN  /\ which = "load" =>
                  /\ Len(submitted) = 0
                  /\ Ops(sent) \in {<<>>, <<"job">>, <<"job", "result">>}
                  /\ read => Ops(sent) = <<"job", "result">>
            /\ which = "run" =>
                  /\ Len(submitted) <= 1
                  /\ Ops(sent) \in {<<>>, <<"run">>, <<"run", "result">>}
                  /\ sent # <<>> => SubmittedToRealBackend(sent[1])
                  /\ read => Ops(sent) = <<"run", "result">>

\* the run branch of the connect-to-hardware notebook has returned
C1_Witness ==
    /\ nb = "07a_connect_to_ibmq"
    /\ value["which"] = [is |-> "run"]
    /\ Past(HardwareCell, ResultStmt)
    /\ value["real_result"] # None
    /\ Len(SelectSeq(requests, SubmittedToRealBackend)) = 1

(***************************************************************************)
(* C2.  Once the rearranging loop has run, every array of bitstring_counts *)
(* has one entry per point of fine_param_sweep, and its entry i is the     *)
(* count of the bitstring in the sample taken at the i-th point (0 when    *)
(* the bitstring did not occur), whatever the sweep, repeated values       *)
(* included.                                                               *)
(***************************************************************************)
CountIn(sample, bitstring) ==
    IF has_key(sample, bitstring) THEN get(sample, bitstring) ELSE 0

C3_EvsPerSweepPoint ==
    \A p \in 1..Len(plots) :
       \A o \in 1..Len(plots[p].evs) :
          /\ Len(plots[p].evs[o]) = Len(plots[p].x)
          /\ Len(plots[p].stds[o]) = Len(plots[p].x)

(***************************************************************************)
(* C8.  When the run reaches the bonus cell, the cell creates one archive, *)
(* ./<your_name, spaces replaced by _>_<your_idm>.zip, with exactly the    *)
(* five entries stevector_results.pdf, fake_results.pdf, real_results.pdf, *)
(* circuit.pdf and specs.json; the JSON holds the three counts with their  *)
(* keys and with int values.                                               *)
(***************************************************************************)
BonusCell == CellOf("ZipFile")

Underscored(c) == IF c = " " THEN "_" ELSE c

ArchivePath ==
    <<".", "/">>
    \o [i \in 1..Len(value["your_name"].is) |->
           Underscored(value["your_name"].is[i])]
    \o <<"_">> \o value["your_idm"].is \o <<".", "z", "i", "p">>

SameCounts(json, counts) ==
    /\ keys(json) = keys(counts)
    /\ \A i \in 1..Len(counts) : json[i].v = [int |-> counts[i].v]

C8_Archive ==
    (/\ nb = "07b_ibm_qpe"
     /\ pc \in {"done", "error"}
     /\ cell = BonusCell) =>
        /\ Len(files) = 1
        /\ files[1].k = ArchivePath
        /\ keys(files[1].v)
             = <<"stevector_results.pdf", "fake_results.pdf",
                 "real_results.pdf", "circuit.pdf", "specs.json">>
        /\ LET specs == get(files[1].v, "specs.json").json
           IN  /\ SameCounts(get(specs, "__sv_counts").dict,
                             value["sv_counts"].is)
               /\ SameCounts(get(specs, "__fake_counts").dict,
                             value["fake_counts"].is)
               /\ SameCounts(get(specs, "__real_counts").dict,
                             value["real_counts"].is)

(***************************************************************************)
(* C10.  Running the cells of the hardware-QPE notebook once, in document  *)
(* order, with its placeholders filled, no statement (those of the bonus   *)
(* cell included) reads a name that no earlier statement has assigned: no  *)
(* NameError is raised.                                                    *)
(***************************************************************************)
C10_NamesAssignedBeforeRead ==
    nb = "07b_ibm_qpe" =>
        /\ Running => Free(Reads) \subseteq defined
        /\ pc = "error" => error.raised # "NameError"

\* the whole notebook has run, the bonus cell included
C10_Witness ==
    /\ nb = "07b_ibm_qpe"
    /\ pc = "done"
    /\ cell = BonusCell
    /\ "jobj" \in defined

(***************************************************************************)
(* C11 (as claimed): when the circuit's output distribution is that of     *)
(* the discrete Fourier transform of initial_state, the curve labelled     *)
(* "iQFT (norm)" and the curve labelled "DFT (norm)" that check_results    *)
(* plots have the same value at every index.                               *)
(***************************************************************************)
C11_CurvesCoincide ==
    (nb = "03b_fourier_transform:check_results" /\ pc = "called") =>
        \A k \in 1..Len(ret.iqft) : EqFrac(ret.iqft[k].sq, ret.dft[k].sq)

(***************************************************************************)
(* C12.  In the hardware cell of the hardware-QPE notebook, a value of     *)
(* which other than "run" and "load" makes the branch raise ValueError:    *)
(* the run never gets past the branch, real_counts is never computed, and  *)
(* the cell neither submits nor loads a job.                               *)
(***************************************************************************)
NoJob(r) == r.cell = HardwareCell /\ r.op \in {"run", "job", "result"}

C12_OtherWhichRaises ==
    (/\ nb = "07b_ibm_qpe"
     /\ value["which"] # None
     /\ value["which"].is \notin {"run", "load"}) =>
        /\ ~ Past(HardwareCell, BranchStmt)
        /\ pc = "error" =>
              /\ error.raised = "ValueError"
              /\ error.cell = HardwareCell /\ error.stmt = BranchStmt
        /\ value["real_counts"] = None
        /\ defined \cap {"real_job", "job_key", "real_counts"} = {}
        /\ SelectSeq(requests, NoJob) = <<>>

\* the else branch has raised
C12_Witness ==
    /\ nb = "07b_ibm_qpe"
    /\ value["which"] = [is |-> "Run"]
    /\ pc = "error"
    /\ error.raised = "ValueError"
    /\ cell = HardwareCell

(***************************************************************************)
(* C13 (as claimed): in the hardware cell of the connect-to-hardware       *)
(* notebook, whatever the value of which, real_result has been assigned    *)
(* when the run reaches the first call of plot_estimator_result.           *)
(***************************************************************************)
C13_RealResultAssigned ==
    (/\ nb = "07a_connect_to_ibmq"
     /\ cell = HardwareCell
     /\ Statement.does = "plot"
     /\ Statement.arg.result = "real_result") =>
        /\ "real_result" \in defined
        /\ value["real_result"] # None

(***************************************************************************)
(* C14.  phase_from_counts and get_phase_from_qpe_circuit decode the most  *)
(* frequent bitstring b_1 ... b_t as the binary fraction 0.b_1...b_t, the  *)
(* leftmost character most significant: the phase is int(b, 2) / 2^t, and  *)
(* it lies in [0, 1 - 2^-t].                                               *)
(***************************************************************************)
Decodes == {"phase_from_counts(counts)", "get_phase_from_qpe_circuit"}

\* the key of counts that occurs more often than every other one
MostFrequent(counts) ==
    CHOOSE b \in {counts[i].k : i \in 1..Len(counts)} :
        \A j \in 1..Len(counts) :
            counts[j].k # b => counts[j].v < get(counts, b)

C14_BinaryFraction ==
    (/\ pc \in {"called", "decoded"}
     /\ call # None
     /\ call.fn \in Decodes
     /\ "phase" \in DOMAIN ret) =>
        LET b == MostFrequent(call.counts)
            t == Len(b)
        IN  /\ ret.phase[1] * Pow2(t) = BinaryValue(b) * ret.phase[2]
            /\ ret.phase[1] >= 0
            /\ ret.phase[1] * Pow2(t) <= (Pow2(t) - 1) * ret.phase[2]
            /\ call.fn = "phase_from_counts(counts)" => ret.bitstring = b

\* the bitstring "011", measured twice as often as "100", decoded as 3/8
C14_Witness ==
    /\ pc = "called"
    /\ call = [fn |-> "phase_from_counts(counts)",
               counts |-> <<Item(<<"1", "0", "0">>, 1),
                            Item(<<"0", "1", "1">>, 2)>>]
    /\ ret.phase = <<3, 8>>

(***************************************************************************)
(* C15 (as claimed): get_correct_bitstring(target_phase, r1) has exactly   *)
(* r1 characters, for every target_phase in [0, 1) and every r1 >= 1.      *)
(***************************************************************************)
C15_CorrectBitstringLength ==
    (/\ nb = "07b_ibm_qpe:utilities"
     /\ pc = "called"
     /\ call.fn = "phase_from_counts") =>
        Len(call.correct_bitstring) = call.r1

(***************************************************************************)
(* C16.  In one call of qpe_circuit the random Hermitian matrix is drawn   *)
(* once, and the m-th controlled unitary (m = 0..r1-1) is                  *)
(* exp(i * 2^m * H) = U^(2^m) of that one matrix, as yielded; the phase    *)
(* and psi are computed once, from the first yielded unitary U, for one    *)
(* eigenpair index, and the phase lies in [0, 1).                          *)
(***************************************************************************)
InQpeCircuit ==
    nb = "04_quantum_phase_estimation:qpe_circuit" /\ pc # "start"

\* the unitaries of the controlled gates of circ, in the order appended
ControlledUnitaries ==
    LET at == SelectSeq([p \in 1..Len(circ) |-> p],
                        LAMBDA p : circ[p].gate = "c-unitary")
    IN  [m \in 1..Len(at) |-> circ[at[m]].of.unitary]

C16_State ==
    InQpeCircuit =>
        /\ Len(ControlledUnitaries) = frame.ind
        /\ pc # "for" => frame.ind = frame.r1
        /\ \A m \in 1..Len(ControlledUnitaries) :
              ControlledUnitaries[m]
                  = [expm_i |-> frame.rham, times |-> 2 ^ (m - 1)]
        /\ frame.ind > 0 =>
              /\ frame.phase.eigenphase_of
                     = [expm_i |-> frame.rham, times |-> 1]
              /\ frame.psi.eigenvector_of = frame.phase.eigenphase_of
              /\ frame.psi.idx = frame.phase.idx
              /\ frame.phase.idx \in 0..(Pow2(frame.r2) - 1)
              /\ ~ LessQ(frame.phase.phase, <<0, 1>>)
              /\ LessQ(frame.phase.phase, <<1, 1>>)

\* once an iteration has run, the matrix, the phase and psi stay what they are
C16_Step ==
    (InQpeCircuit /\ frame.ind > 0) =>
        /\ frame'.rham = frame.rham
        /\ frame'.phase = frame.phase
        /\ frame'.psi = frame.psi

C17_TimeEvolutionUnitaries ==
    (/\ nb = "07b_ibm_qpe:time_evolution_unitaries"
     /\ pc \in {"generator", "exhausted"}) =>
        /\ Len(ret.yielded) <= call.r1
        /\ pc = "exhausted" => Len(ret.yielded) = call.r1
        /\ \A m \in 0..(Len(ret.yielded) - 1) :
              /\ ret.yielded[m + 1].ham = call.ham
              /\ ret.yielded[m + 1].time = -call.time * Pow2(m)

\* the generator of r1 = 3 gates for time = 3 is exhausted
C17_Witness ==
    /\ nb = "07b_ibm_qpe:time_evolution_unitaries"
    /\ pc = "exhausted"
    /\ call.r1 = 3
    /\ call.time = 3
    /\ Len(ret.yielded) = 3
    /\ ret.yielded[3].time = -12

(***************************************************************************)
(* C18.  Executing the cells of the hardware-QPE notebook by hand: once    *)
(* the measurement cell has been executed on the circuit of a call of      *)
(* qpe_circuit, circ has exactly one classical register, named "meas",     *)
(* and one measure instruction into it, however many times the cell is     *)
(* executed (the further executions raise); the simulation is only ever    *)
(* applied to a circuit with no measurement; in the document the           *)
(* statevector cell comes before the measurement cell.                     *)
(***************************************************************************)
Named(cregs, name) == {i \in 1..Len(cregs) : cregs[i].name = name}

C18_OneMeasRegister ==
    /\ \E i, j \in 1..Len(ibm_qpe) :
          i < j /\ ibm_qpe[i] = Cell_statevector /\ ibm_qpe[j] = Cell_measure
    /\ (nb = "07b_ibm_qpe:manual execution" /\ pc = "idle") =>
          /\ \A k \in 1..Len(frame.simulated) :
                /\ Measurements(frame.simulated[k]) = 0
                /\ frame.simulated[k].cregs = <<>>
          /\ frame.raised # "QiskitError"
          /\ frame.circ # None =>
                LET c == frame.circ.is
                IN  /\ Len(c.cregs) <= 1
                    /\ Measurements(c) = Len(c.cregs)
                    /\ Len(c.cregs) = 1 =>
                          c.cregs[1] = [size |-> frame.r1, name |-> "meas"]
                    /\ frame.raised = "CircuitError" =>
                          Cardinality(Named(c.cregs, "meas")) = 1

\* the measurement cell executed three times in a row on one circuit
C18_Witness ==
    /\ nb = "07b_ibm_qpe:manual execution"
    /\ pc = "idle"
    /\ frame.runs = 4
    /\ Len(frame.simulated) = 1
    /\ frame.raised = "CircuitError"
    /\ Cardinality(Named(frame.circ.is.cregs, "meas")) = 1

=============================================================================
